---- MODULE Spec2Model ----
(***************************************************************************)
(* xCOMET persistent server (src/python/server.py).                        *)
(*                                                                         *)
(* The process keeps one model handle and one stats dictionary as module   *)
(* globals.  Every HTTP handler is an `async def` without any suspension   *)
(* point of its own (get_model and model.predict are plain blocking calls, *)
(* and detect_errors awaits the evaluate coroutine, which never yields),   *)
(* so the event loop runs each handler from its first line to its response *)
(* as one step.  Requests that are in flight at the same time are the      *)
(* accepted connections counted by inflight; the loop picks any of them.   *)
(*                                                                         *)
(* External collaborators (comet.download_model, load_from_checkpoint,     *)
(* model.predict, the clock) are the nondeterministic inputs of a step.    *)
(* Scores are fixed-point integers in units of 1/10000.                    *)
(***************************************************************************)
EXTENDS Integers, Sequences, FiniteSets, TLC

VARIABLES
    phase,        \* position of lifespan: "startup" | "serving" | "failed",
                  \* then "stopping" (SIGTERM sent) | "stopped" (after the yield)
    env,          \* os.environ: the value of XCOMET_MODEL
    _model,       \* global _model: None or the loaded handle
    _model_name,  \* global _model_name
    _stats,       \* global _stats dictionary
    inflight,     \* accepted requests whose handler has not run yet
    arrived,      \* number of requests accepted so far
    resp,         \* the last response sent
    calls,        \* history: calls made to the external collaborators
    served        \* history: requests answered, by endpoint and outcome

vars == <<phase, env, _model, _model_name, _stats, inflight, arrived, resp,
          calls, served>>

----------------------------------------------------------------------------
(* Bounds *)

MaxRequests == 3     \* requests accepted in one run
MaxPairs == 3        \* pairs of one batch request
MaxOut == 2          \* entries of output.scores and output.metadata of a batch
MaxSpans == 2        \* error spans of one metadata entry

----------------------------------------------------------------------------
(* Optional values: Python None is the empty tuple, a value v is <<v>> *)

None == <<>>

Some(v) == <<v>>

\* Python truthiness of an Optional[str]: None and "" are falsy
Truthy(o) == o # None /\ o[1] # ""

----------------------------------------------------------------------------
(* Strings that the code inspects are sequences of characters *)

ToLower ==
    ("A" :> "a") @@ ("B" :> "b") @@ ("C" :> "c") @@ ("D" :> "d") @@
    ("E" :> "e") @@ ("F" :> "f") @@ ("G" :> "g") @@ ("H" :> "h") @@
    ("I" :> "i") @@ ("J" :> "j") @@ ("K" :> "k") @@ ("L" :> "l") @@
    ("M" :> "m") @@ ("N" :> "n") @@ ("O" :> "o") @@ ("P" :> "p") @@
    ("Q" :> "q") @@ ("R" :> "r") @@ ("S" :> "s") @@ ("T" :> "t") @@
    ("U" :> "u") @@ ("V" :> "v") @@ ("W" :> "w") @@ ("X" :> "x") @@
    ("Y" :> "y") @@ ("Z" :> "z")

\* str.lower()
Lower(s) == [i \in 1..Len(s) |-> IF s[i] \in DOMAIN ToLower THEN ToLower[s[i]] ELSE s[i]]

\* Python's `needle in hay` on strings
Contains(hay, needle) ==
    \E i \in 1..(Len(hay) - Len(needle) + 1) :
        SubSeq(hay, i, i + Len(needle) - 1) = needle

wmt22_comet_da == <<"w","m","t","2","2","-","c","o","m","e","t","-","d","a">>

wmt21_comet_da == <<"w","m","t","2","1","-","c","o","m","e","t","-","d","a">>

wmt20_comet_da == <<"w","m","t","2","0","-","c","o","m","e","t","-","d","a">>

ref_required == {wmt22_comet_da, wmt21_comet_da, wmt20_comet_da}

model_requires_reference(model_name) ==
    \E r \in ref_required : Contains(Lower(model_name), r)

Unbabel == <<"U","n","b","a","b","e","l","/">>

\* the default of os.environ.get("XCOMET_MODEL", ...)
DefaultModel == Unbabel \o <<"X","C","O","M","E","T","-","X","L">>

\* values of XCOMET_MODEL
ModelNames ==
    { DefaultModel,
      Unbabel \o wmt22_comet_da,
      Unbabel \o <<"W","M","T","2","1","-","C","o","m","e","t","-","D","A">>,
      <<"w","m","t","2","0","-","c","o","m","e","t","-","d","a","-","v","2">>,
      Unbabel \o <<"w","m","t","2","2","-","c","o","m","e","t","k","i","w","i","-","d","a">> }

----------------------------------------------------------------------------
(* Values exchanged with the external collaborators *)

\* all sequences over S of length 0..n
SeqsUpTo(S, n) == UNION { [1..k -> S] : k \in 0..n }

\* severity strings a raw span of the model's metadata may carry
RawSeverities == {"minor", "major", "critical", "bogus"}

\* a raw span is a dict; its keys are optional (the code reads them with .get)
RawSpans ==
    { [text |-> "x", start |-> 0, end |-> 1, severity |-> s] : s \in RawSeverities }
    \cup { [text |-> "x"] }

\* one entry of output.metadata: None, a dict without 'error_spans', or a
\* dict with 'error_spans'
MetaEntries(spans, n) ==
    { None, Some([other |-> 0]) }
    \cup { Some([error_spans |-> l]) : l \in SeqsUpTo(spans, n) }

\* scores are in units of 1/10000; None stands for a value float() rejects
ScoreValues == {6999, 7000}

RawScores == { Some(v) : v \in ScoreValues } \cup { None }

\* the output object of predict: without a 'metadata' attribute, or with one
OutputsOf(scoreSeqs, metaSeqs) ==
    { [scores |-> sc] : sc \in scoreSeqs }
    \cup { [scores |-> sc, metadata |-> md] : sc \in scoreSeqs, md \in metaSeqs }

\* a predict call raises, or returns an output after ms milliseconds
Predictions(outputs, durations) ==
    { [raises |-> TRUE] }
    \cup { [raises |-> FALSE, output |-> o, ms |-> d] : o \in outputs, d \in durations }

\* rounded durations of the model construction, in ms
LoadTimes == {3}

\* download_model raises, load_from_checkpoint raises, or both return and
\* the construction took ms milliseconds
Constructions ==
    { [outcome |-> "download_fails"], [outcome |-> "load_fails"] }
    \cup { [outcome |-> "ok", ms |-> d] : d \in LoadTimes }

\* Optional[str] request fields
References == { None, Some(""), Some("ref") }

EvaluateRequests(refs) ==
    { [source |-> "s", translation |-> "t", reference |-> r, use_gpu |-> FALSE] :
        r \in refs }

MinSeverities == {"minor", "major", "critical", "blocker"}

DetectErrorsRequests(refs, severities) ==
    { [source |-> "s", translation |-> "t", reference |-> r,
       min_severity |-> m, use_gpu |-> FALSE] :
        r \in refs, m \in severities }

TranslationPairs(refs) ==
    { [source |-> "s", translation |-> "t", reference |-> r] : r \in refs }

BatchEvaluateRequests(refs) ==
    { [pairs |-> ps, batch_size |-> 8, use_gpu |-> FALSE] :
        ps \in SeqsUpTo(TranslationPairs(refs), MaxPairs) }

(* Inputs of the server specification: up to MaxRequests requests, and the *)
(* outcomes of predict that the process state can tell apart (it raises,   *)
(* its score is unreadable, its spans carry an unknown severity, or the    *)
(* output is well formed).                                                 *)

ServerModelNames == { DefaultModel, Unbabel \o wmt22_comet_da }

ServerReferences == { None, Some("ref") }

ServerDurations == {2}

ServerEvalOutputs ==
    OutputsOf({ <<>>, <<Some(7000)>> },
              { << Some([error_spans |-> <<[severity |-> "bogus"]>>]) >> })

\* one score per pair, or none at all, or an unreadable one
ServerBatchOutputs ==
    OutputsOf({ [i \in 1..n |-> Some(7000)] : n \in {0, MaxPairs} } \cup { <<None>> },
              {})

\* batches whose pairs all carry a reference, or all lack one
ServerBatchRequests ==
    BatchEvaluateRequests({ None }) \cup BatchEvaluateRequests({ Some("ref") })

(* Inputs of the response specification: one request, and every shape of   *)
(* the model output up to MaxSpans spans per entry.                        *)

ResponseDurations == {1}

ResponseEvalOutputs ==
    OutputsOf(SeqsUpTo(RawScores, 1),
              SeqsUpTo(MetaEntries(RawSpans, MaxSpans), 1))

BatchSpans ==
    { [text |-> "x", start |-> 0, end |-> 1, severity |-> "critical"],
      [text |-> "x", start |-> 0, end |-> 1, severity |-> "minor"],
      [text |-> "x"] }

ResponseBatchOutputs ==
    OutputsOf(SeqsUpTo(RawScores, MaxOut),
              SeqsUpTo(MetaEntries(BatchSpans, 1), MaxOut))

----------------------------------------------------------------------------
(* The process state handed through a handler *)

Globals == [model |-> _model, model_name |-> _model_name, stats |-> _stats,
            calls |-> calls]

\* raise HTTPException(status_code, detail)
HTTPException(G, status_code, detail) ==
    [G |-> G, status |-> status_code, body |-> [detail |-> detail]]

\* a handler returns body
Return(G, body) == [G |-> G, status |-> 200, body |-> body]

\* get_model without its `if _model is None`: every call constructs
get_model_uncached(G, model_name, cons) ==
    IF cons.outcome = "download_fails"
      THEN [raised |-> TRUE,
            G |-> [G EXCEPT !.calls.download_model = @ + 1]]
    ELSE IF cons.outcome = "load_fails"
      THEN [raised |-> TRUE,
            G |-> [G EXCEPT !.calls.download_model = @ + 1,
                            !.calls.load_from_checkpoint = @ + 1]]
    ELSE [raised |-> FALSE,
          G |-> [G EXCEPT !.model = Some(G.calls.constructed + 1),
                          !.model_name = Some(model_name),
                          !.stats.model_load_time = Some(cons.ms),
                          !.calls.download_model = @ + 1,
                          !.calls.load_from_checkpoint = @ + 1,
                          !.calls.constructed = @ + 1,
                          !.calls.load_time_writes = @ + 1]]

\* get_model binding _model before load_from_checkpoint has returned: a
\* failed load leaves a handle in the cache
get_model_keeps_failed_handle(G, model_name, cons) ==
    IF G.model # None
      THEN [raised |-> FALSE, G |-> G]
    ELSE IF cons.outcome = "download_fails"
      THEN [raised |-> TRUE,
            G |-> [G EXCEPT !.calls.download_model = @ + 1]]
    ELSE IF cons.outcome = "load_fails"
      THEN [raised |-> TRUE,
            G |-> [G EXCEPT !.model = Some(G.calls.constructed + 1),
                            !.calls.download_model = @ + 1,
                            !.calls.load_from_checkpoint = @ + 1]]
    ELSE [raised |-> FALSE,
          G |-> [G EXCEPT !.model = Some(G.calls.constructed + 1),
                          !.model_name = Some(model_name),
                          !.stats.model_load_time = Some(cons.ms),
                          !.calls.download_model = @ + 1,
                          !.calls.load_from_checkpoint = @ + 1,
                          !.calls.constructed = @ + 1,
                          !.calls.load_time_writes = @ + 1]]

(* get_model: the cached handle, or the construction.  The handle is       *)
(* identified by the ordinal of the construction that produced it.         *)
get_model(G, model_name, cons) ==
    IF G.model # None
      THEN [raised |-> FALSE, G |-> G]
    ELSE IF cons.outcome = "download_fails"
      THEN [raised |-> TRUE,
            G |-> [G EXCEPT !.calls.download_model = @ + 1]]
    ELSE IF cons.outcome = "load_fails"
      THEN [raised |-> TRUE,
            G |-> [G EXCEPT !.calls.download_model = @ + 1,
                            !.calls.load_from_checkpoint = @ + 1]]
    ELSE [raised |-> FALSE,
          G |-> [G EXCEPT !.model = Some(G.calls.constructed + 1),
                          !.model_name = Some(model_name),
                          !.stats.model_load_time = Some(cons.ms),
                          !.calls.download_model = @ + 1,
                          !.calls.load_from_checkpoint = @ + 1,
                          !.calls.constructed = @ + 1,
                          !.calls.load_time_writes = @ + 1]]

----------------------------------------------------------------------------
(* Score extraction (shared by evaluate and batch_evaluate) *)

\* dict.get(key, default)
Get(d, key, default) == IF key \in DOMAIN d THEN d[key] ELSE default

\* the error dict appended for one raw span
ExtractSpan(span) ==
    [text |-> Get(span, "text", ""),
     start |-> Get(span, "start", 0),
     end |-> Get(span, "end", 0),
     severity |-> Get(span, "severity", "minor")]

\* thresholds of the quality label, in units of 1/10000
ExcellentMin == 9000

GoodMin == 7000

FairMin == 5000

\* the label with the thresholds excluded from the band above them
Quality_exclusive(score) ==
    IF score > ExcellentMin THEN "Excellent"
    ELSE IF score > GoodMin THEN "Good"
    ELSE IF score > FairMin THEN "Fair"
    ELSE "Poor"

Quality(score) ==
    IF score >= ExcellentMin THEN "Excellent"
    ELSE IF score >= GoodMin THEN "Good"
    ELSE IF score >= FairMin THEN "Fair"
    ELSE "Poor"

\* the stats update counting one pair whatever the size of the batch
update_stats_one_pair(st, counter, pairs, inference_time) ==
    [st EXCEPT ![counter] = @ + 1,
               !.total_pairs_evaluated = @ + 1,
               !.total_inference_time_ms = @ + inference_time]

\* the stats update counting the pairs from 0
update_stats_off_by_one(st, counter, pairs, inference_time) ==
    [st EXCEPT ![counter] = @ + 1,
               !.total_pairs_evaluated = @ + pairs - 1,
               !.total_inference_time_ms = @ + inference_time]

\* the stats update assigning the totals where the code adds to them
update_stats_overwrites(st, counter, pairs, inference_time) ==
    [st EXCEPT ![counter] = @ + 1,
               !.total_pairs_evaluated = pairs,
               !.total_inference_time_ms = inference_time]

\* "# Update stats", lines 175-178 of evaluate and 294-297 of batch_evaluate
update_stats(st, counter, pairs, inference_time) ==
    [st EXCEPT ![counter] = @ + 1,
               !.total_pairs_evaluated = @ + pairs,
               !.total_inference_time_ms = @ + inference_time]

\* a 500 that also throws the cached model away
InternalError_drops_model(G, what) ==
    HTTPException([G EXCEPT !.model = None], 500,
                  [error |-> "exception", message |-> what])

\* 500 raised by `except Exception as e`
InternalError(G, what) ==
    HTTPException(G, 500, [error |-> "exception", message |-> what])

\* handler still running: no response yet
Running(G) == [G |-> G, status |-> 0, body |-> [detail |-> [error |-> "none"]]]

----------------------------------------------------------------------------
(* POST /evaluate *)

\* lines 153-161: get_model, then the reference check
evaluate_begin(G, model_name, request, cons) ==
    LET gm == get_model(G, model_name, cons) IN
    IF gm.raised
      THEN InternalError(gm.G, "construction")
    ELSE IF ~Truthy(request.reference) /\ model_requires_reference(model_name)
      THEN HTTPException(gm.G, 400,
                         [error |-> "requires_reference", model_name |-> model_name])
    ELSE Running(gm.G)

\* lines 163-209: predict, stats, extraction, summary
evaluate_end(G, request, pred) ==
    LET Gp == [G EXCEPT !.calls.predict = @ + 1] IN
    IF pred.raises
      THEN InternalError(Gp, "predict")
    ELSE
      LET output == pred.output
          Gs == [Gp EXCEPT !.stats =
                     update_stats(@, "evaluation_count", 1, pred.ms)]
      IN
      IF Len(output.scores) = 0 \/ output.scores[1] = None
        THEN InternalError(Gs, "score")
      ELSE
        LET score == output.scores[1][1]
            hasMeta == "metadata" \in DOMAIN output /\ Len(output.metadata) > 0
            metadata == IF hasMeta THEN output.metadata[1] ELSE None
            spans == IF metadata # None /\ "error_spans" \in DOMAIN metadata[1]
                       THEN metadata[1].error_spans ELSE <<>>
            errors == [i \in 1..Len(spans) |-> ExtractSpan(spans[i])]
        IN Return(Gs, [score |-> score,
                       errors |-> errors,
                       summary |-> [quality |-> Quality(score), score |-> score,
                                    errors |-> Len(errors)]])

evaluate(G, model_name, request, cons, pred) ==
    LET b == evaluate_begin(G, model_name, request, cons) IN
    IF b.status # 0 THEN b ELSE evaluate_end(b.G, request, pred)

----------------------------------------------------------------------------
(* POST /detect_errors *)

severity_order == [minor |-> 0, major |-> 1, critical |-> 2]

\* lines 222-227
EvaluateRequest(request) ==
    [source |-> request.source, translation |-> request.translation,
     reference |-> request.reference, use_gpu |-> request.use_gpu]

\* the number of errors with severity sev
CountSeverity(errors, sev) ==
    Cardinality({ i \in 1..Len(errors) : errors[i].severity = sev })

\* lines 230-248, applied to the result of the inner evaluate
detect_errors_filter(ev, request) ==
    IF ev.status # 200
      THEN ev
    ELSE
      LET min_severity_order == Get(severity_order, request.min_severity, 0)
          Keep(e) == Get(severity_order, e.severity, 0) >= min_severity_order
          filtered_errors == SelectSeq(ev.body.errors, Keep)
      IN
      IF \E i \in 1..Len(filtered_errors) :
             filtered_errors[i].severity \notin DOMAIN severity_order
        THEN InternalError(ev.G, "KeyError")
      ELSE Return(ev.G,
             [total_errors |-> Len(filtered_errors),
              errors_by_severity |->
                  [sev \in DOMAIN severity_order |->
                       CountSeverity(filtered_errors, sev)],
              errors |-> [i \in 1..Len(filtered_errors) |->
                            [suggestion |-> None,
                             text |-> filtered_errors[i].text,
                             start |-> filtered_errors[i].start,
                             end |-> filtered_errors[i].end,
                             severity |-> filtered_errors[i].severity]]])

\* detect_errors without `except HTTPException: raise`: every exception of
\* the inner evaluate becomes a 500
detect_errors_rewraps(G, model_name, request, cons, pred) ==
    LET ev == evaluate(G, model_name, EvaluateRequest(request), cons, pred) IN
    IF ev.status # 200
      THEN InternalError(ev.G, "evaluate")
      ELSE detect_errors_filter(ev, request)

detect_errors(G, model_name, request, cons, pred) ==
    detect_errors_filter(
        evaluate(G, model_name, EvaluateRequest(request), cons, pred), request)

----------------------------------------------------------------------------
(* POST /batch_evaluate *)

\* line 274
missing_ref_count(pairs) ==
    Cardinality({ i \in 1..Len(pairs) : ~Truthy(pairs[i].reference) })

\* the result whose flag takes a span without severity for a critical one
BatchResultAt_flags_unlabelled(output, i) ==
    LET hasMeta == /\ "metadata" \in DOMAIN output
                   /\ Len(output.metadata) > 0
                   /\ i <= Len(output.metadata)
        metadata == IF hasMeta THEN output.metadata[i] ELSE None
        hasSpans == metadata # None /\ "error_spans" \in DOMAIN metadata[1]
        spans == IF hasSpans THEN metadata[1].error_spans ELSE <<>>
    IN [index |-> i - 1,
        score |-> output.scores[i][1],
        errors |-> [k \in 1..Len(spans) |-> ExtractSpan(spans[k])],
        error_count |-> Len(spans),
        has_critical_errors |->
            \E k \in 1..Len(spans) : Get(spans[k], "severity", "critical") = "critical"]

\* lines 302-325: the result built for output.scores[i] (i counts from 1)
BatchResultAt(output, i) ==
    LET hasMeta == /\ "metadata" \in DOMAIN output
                   /\ Len(output.metadata) > 0
                   /\ i <= Len(output.metadata)
        metadata == IF hasMeta THEN output.metadata[i] ELSE None
        hasSpans == metadata # None /\ "error_spans" \in DOMAIN metadata[1]
        spans == IF hasSpans THEN metadata[1].error_spans ELSE <<>>
    IN [index |-> i - 1,
        score |-> output.scores[i][1],
        errors |-> [k \in 1..Len(spans) |-> ExtractSpan(spans[k])],
        error_count |-> Len(spans),
        has_critical_errors |->
            \E k \in 1..Len(spans) : Get(spans[k], "severity", "absent") = "critical"]

RECURSIVE SumScores(_)
SumScores(results) ==
    IF results = <<>> THEN 0
    ELSE results[1].score + SumScores(Tail(results))

\* a Python float quotient, kept exact as numerator and denominator
Ratio(n, d) == [num |-> n, den |-> d]

\* lines 261-267
EmptyBatchBody ==
    [average_score |-> Ratio(0, 1), total_pairs |-> 0, results |-> <<>>,
     summary |-> [text |-> "No pairs to evaluate."]]

\* batch_evaluate calling get_model before it looks at the pairs
batch_evaluate_begin_loads_first(G, model_name, request, cons) ==
    LET gm == get_model(G, model_name, cons)
        missing == missing_ref_count(request.pairs)
    IN
    IF gm.raised
      THEN InternalError(gm.G, "construction")
    ELSE IF Len(request.pairs) = 0
      THEN Return(gm.G, EmptyBatchBody)
    ELSE IF model_requires_reference(model_name) /\ missing > 0
      THEN HTTPException(gm.G, 400,
               [error |-> "requires_references", model_name |-> model_name,
                missing_ref_count |-> missing])
    ELSE Running(gm.G)

\* lines 261-279: the empty batch, get_model, then the reference check
batch_evaluate_begin(G, model_name, request, cons) ==
    IF Len(request.pairs) = 0
      THEN Return(G, EmptyBatchBody)
    ELSE
      LET gm == get_model(G, model_name, cons)
          missing == missing_ref_count(request.pairs)
      IN
      IF gm.raised
        THEN InternalError(gm.G, "construction")
      ELSE IF model_requires_reference(model_name) /\ missing > 0
        THEN HTTPException(gm.G, 400,
                 [error |-> "requires_references", model_name |-> model_name,
                  missing_ref_count |-> missing])
      ELSE Running(gm.G)

\* lines 281-338: predict, stats, results, aggregation
batch_evaluate_end(G, request, pred) ==
    LET Gp == [G EXCEPT !.calls.predict = @ + 1] IN
    IF pred.raises
      THEN InternalError(Gp, "predict")
    ELSE
      LET output == pred.output
          Gs == [Gp EXCEPT !.stats =
                     update_stats(@, "batch_count", Len(request.pairs), pred.ms)]
      IN
      IF \E i \in 1..Len(output.scores) : output.scores[i] = None
        THEN InternalError(Gs, "score")
      ELSE
        LET results == [i \in 1..Len(output.scores) |-> BatchResultAt(output, i)]
            total_score == SumScores(results)
            average_score == IF Len(results) > 0
                               THEN Ratio(total_score, Len(results))
                               ELSE Ratio(0, 1)
            good_count ==
                Cardinality({ i \in 1..Len(results) : results[i].score >= GoodMin })
            critical_count ==
                Cardinality({ i \in 1..Len(results) : results[i].has_critical_errors })
        IN Return(Gs, [average_score |-> average_score,
                       total_pairs |-> Len(request.pairs),
                       results |-> results,
                       summary |-> [total_pairs |-> Len(request.pairs),
                                    average_score |-> average_score,
                                    good_count |-> good_count,
                                    critical_count |-> critical_count]])

batch_evaluate(G, model_name, request, cons, pred) ==
    LET b == batch_evaluate_begin(G, model_name, request, cons) IN
    IF b.status # 0 THEN b ELSE batch_evaluate_end(b.G, request, pred)

----------------------------------------------------------------------------
(* GET /health and GET /stats *)

\* /health loading the model in order to report on it
health_loads_model(G, model_name) ==
    LET gm == get_model(G, model_name, [outcome |-> "ok", ms |-> 0]) IN
    Return(gm.G, [status |-> "ok",
                  model_loaded |-> gm.G.model # None,
                  model_name |-> IF gm.G.model_name # None THEN gm.G.model_name[1]
                                 ELSE model_name])

health(G, model_name) ==
    Return(G, [status |-> "ok",
               model_loaded |-> G.model # None,
               model_name |-> IF G.model_name # None THEN G.model_name[1]
                              ELSE model_name])

\* rounding that sends ties upwards
Round_half_up(n, d) == (2 * n + d) \div (2 * d)

\* Python round(n / d) of non-negative integers: ties go to the even integer
Round(n, d) ==
    LET q == n \div d
        r == n % d
    IN IF 2 * r < d THEN q
       ELSE IF 2 * r > d THEN q + 1
       ELSE IF q % 2 = 0 THEN q ELSE q + 1

\* lines 346-351: os.kill(os.getpid(), signal.SIGTERM) changes no global
shutdown(G) == Return(G, [status |-> "shutting_down"])

stats(G, now) ==
    LET uptime_seconds == IF G.stats.start_time # None /\ G.stats.start_time[1] # 0
                            THEN Some(now - G.stats.start_time[1]) ELSE None
        total_requests == G.stats.evaluation_count + G.stats.batch_count
        avg_inference_time_ms ==
            IF total_requests > 0
              THEN Some(Round(G.stats.total_inference_time_ms, total_requests))
              ELSE None
    IN Return(G, [uptime_seconds |-> uptime_seconds,
                  model_loaded |-> G.model # None,
                  model_load_time_ms |-> G.stats.model_load_time,
                  evaluation_count |-> G.stats.evaluation_count,
                  batch_count |-> G.stats.batch_count,
                  total_pairs_evaluated |-> G.stats.total_pairs_evaluated,
                  total_inference_time_ms |-> G.stats.total_inference_time_ms,
                  avg_inference_time_ms |-> avg_inference_time_ms])

----------------------------------------------------------------------------
(* Initial state: the module globals as server.py defines them *)

\* time.time() at startup, in seconds
StartTime == 1

\* seconds between startup and a /stats request
Uptimes == {0, 2}

NoRequest == [none |-> TRUE]

\* predict was not called
NoPrediction == [called |-> FALSE]

NoResponse ==
    [endpoint |-> "none", status |-> 0, request |-> NoRequest,
     pred |-> NoPrediction, body |-> [none |-> TRUE]]

InitGlobals ==
    /\ phase = "startup"
    /\ _model = None
    /\ _model_name = None
    /\ _stats = [start_time |-> None,
                 model_load_time |-> None,
                 evaluation_count |-> 0,
                 batch_count |-> 0,
                 total_pairs_evaluated |-> 0,
                 total_inference_time_ms |-> 0]
    /\ inflight = 0
    /\ arrived = 0
    /\ resp = NoResponse
    /\ calls = [download_model |-> 0, load_from_checkpoint |-> 0,
                constructed |-> 0, load_time_writes |-> 0, predict |-> 0]
    /\ served = [evaluate |-> 0, detect_errors |-> 0, batch |-> 0,
                 empty_batch |-> 0, errors |-> 0, batch_pairs |-> 0, ok_time |-> 0,
                 predicted |-> 0, predicted_pairs |-> 0, predicted_ms |-> 0]

Init == env \in ServerModelNames /\ InitGlobals

InitResponses == env \in ModelNames /\ InitGlobals

----------------------------------------------------------------------------
(* Steps *)

\* the globals after a handler
Install(G) ==
    /\ _model' = G.model
    /\ _model_name' = G.model_name
    /\ _stats' = G.stats
    /\ calls' = G.calls

\* the outcomes of the construction that a step can observe
ConsChoices(G) ==
    IF G.model = None THEN Constructions ELSE { [outcome |-> "ok", ms |-> 0] }

\* the outcomes of predict that a step can observe
PredChoices(begun, outputs, durations) ==
    IF begun.status = 0 THEN Predictions(outputs, durations)
    ELSE { NoPrediction }

\* a handler can run for a request that was accepted: the server is serving,
\* or was sent SIGTERM and has not yet left lifespan
Handling == phase \in {"serving", "stopping"}

\* lifespan, up to its yield: start_time, then the optional preload.  An
\* exception of get_model is not caught here and ends the process.
Lifespan ==
    /\ phase = "startup"
    /\ \E preload \in BOOLEAN :
         \E cons \in IF preload THEN Constructions ELSE { [outcome |-> "ok", ms |-> 0] } :
           LET G0 == [Globals EXCEPT !.stats.start_time = Some(StartTime)]
               gm == IF preload THEN get_model(G0, env, cons)
                     ELSE [raised |-> FALSE, G |-> G0]
           IN /\ Install(gm.G)
              /\ phase' = IF gm.raised THEN "failed" ELSE "serving"
    /\ UNCHANGED <<env, inflight, arrived, resp, served>>

\* a request is accepted while others are still waiting for their handler
Arrive(maxRequests) ==
    /\ phase = "serving"
    /\ arrived < maxRequests
    /\ arrived' = arrived + 1
    /\ inflight' = inflight + 1
    /\ UNCHANGED <<phase, env, _model, _model_name, _stats, resp, calls, served>>

\* the response of a handler leaves the process; resp also keeps the request
\* and the outcome of the predict call that led to it
Respond(endpoint, request, pred, r) ==
    /\ Install(r.G)
    /\ resp' = [endpoint |-> endpoint, status |-> r.status, request |-> request,
                pred |-> pred, body |-> r.body]
    /\ inflight' = inflight - 1
    /\ UNCHANGED <<phase, env, arrived>>

\* history of a scoring request: an error response, or a success of the
\* endpoint with the pairs of its batch and the duration of its predict call
\* and, whatever the response, the predict calls that returned with the
\* pairs given to them and their durations
Serve(endpoint, r, pairs, pred) ==
    LET scored == IF endpoint = "batch" THEN pairs ELSE 1
        history == IF "ms" \in DOMAIN pred
                     THEN [served EXCEPT !.predicted = @ + 1,
                                         !.predicted_pairs = @ + scored,
                                         !.predicted_ms = @ + pred.ms]
                     ELSE served
    IN served' =
        IF r.status # 200 THEN [history EXCEPT !.errors = @ + 1]
        ELSE [history EXCEPT ![endpoint] = @ + 1,
                             !.batch_pairs = @ + pairs,
                             !.ok_time = @ + Get(pred, "ms", 0)]

\* POST /shutdown: the process sends itself SIGTERM and answers; the server
\* accepts no request from then on
Shutdown ==
    /\ Handling
    /\ inflight > 0
    /\ LET r == shutdown(Globals) IN
       /\ Install(r.G)
       /\ resp' = [endpoint |-> "shutdown", status |-> r.status,
                   request |-> NoRequest, pred |-> NoPrediction, body |-> r.body]
    /\ phase' = "stopping"
    /\ inflight' = inflight - 1
    /\ UNCHANGED <<env, arrived, served>>

\* lifespan after its yield: the server stopped serving.  The requests that
\* are still in flight are never answered.
LifespanExit ==
    /\ phase = "stopping"
    /\ phase' = "stopped"
    /\ UNCHANGED <<env, _model, _model_name, _stats, inflight, arrived, resp,
                   calls, served>>

Health ==
    /\ Handling
    /\ inflight > 0
    /\ Respond("health", NoRequest, NoPrediction, health(Globals, env))
    /\ UNCHANGED served

Stats ==
    /\ Handling
    /\ inflight > 0
    /\ \E now \in { StartTime + u : u \in Uptimes } :
         Respond("stats", NoRequest, NoPrediction, stats(Globals, now))
    /\ UNCHANGED served

Evaluate(requests, outputs, durations) ==
    /\ Handling
    /\ inflight > 0
    /\ \E request \in requests :
         \E cons \in ConsChoices(Globals) :
           \E pred \in PredChoices(evaluate_begin(Globals, env, request, cons),
                                   outputs, durations) :
             LET r == evaluate(Globals, env, request, cons, pred) IN
             /\ Respond("evaluate", request, pred, r)
             /\ Serve("evaluate", r, 0, pred)

DetectErrors(requests, outputs, durations) ==
    /\ Handling
    /\ inflight > 0
    /\ \E request \in requests :
         \E cons \in ConsChoices(Globals) :
           \E pred \in PredChoices(evaluate_begin(Globals, env,
                                                  EvaluateRequest(request), cons),
                                   outputs, durations) :
             LET r == detect_errors(Globals, env, request, cons, pred) IN
             /\ Respond("detect_errors", request, pred, r)
             /\ Serve("detect_errors", r, 0, pred)

BatchEvaluate(requests, outputs, durations) ==
    /\ Handling
    /\ inflight > 0
    /\ \E request \in requests :
         \E cons \in ConsChoices(Globals) :
           \E pred \in PredChoices(batch_evaluate_begin(Globals, env, request, cons),
                                   outputs, durations) :
             LET r == batch_evaluate(Globals, env, request, cons, pred)
                 empty == Len(request.pairs) = 0
             IN
             /\ Respond("batch_evaluate", request, pred, r)
             /\ Serve(IF empty THEN "empty_batch" ELSE "batch", r,
                      Len(request.pairs), pred)

(* The server: up to MaxRequests requests, in flight together or one after *)
(* the other.                                                              *)
Next ==
    \/ Lifespan
    \/ LifespanExit
    \/ Shutdown
    \/ Arrive(MaxRequests)
    \/ Health
    \/ Stats
    \/ Evaluate(EvaluateRequests(ServerReferences), ServerEvalOutputs, ServerDurations)
    \/ DetectErrors(DetectErrorsRequests(ServerReferences, {"minor", "critical"}),
                    ServerEvalOutputs, ServerDurations)
    \/ BatchEvaluate(ServerBatchRequests, ServerBatchOutputs, ServerDurations)

Spec == Init /\ [][Next]_vars

(* One request and its response, over every shape of the model output.     *)
NextResponses ==
    \/ Lifespan
    \/ LifespanExit
    \/ Shutdown
    \/ Arrive(1)
    \/ Health
    \/ Stats
    \/ Evaluate(EvaluateRequests(References), ResponseEvalOutputs, ResponseDurations)
    \/ DetectErrors(DetectErrorsRequests(References, MinSeverities),
                    ResponseEvalOutputs, ResponseDurations)
    \/ BatchEvaluate(BatchEvaluateRequests(ServerReferences), ResponseBatchOutputs,
                     ResponseDurations)

SpecResponses == InitResponses /\ [][NextResponses]_vars

(* The inference times: requests on the default model whose predict calls  *)
(* take 0, 2 or 3 ms, so that the totals are not multiples of the counts.  *)
TimingDurations == {0, 2, 3}

TimingOutputs == OutputsOf({ <<Some(7000)>> }, {})

TimingBatchRequests ==
    { r \in BatchEvaluateRequests({ None }) : Len(r.pairs) = 1 }

InitTiming == env = DefaultModel /\ InitGlobals

NextTiming ==
    \/ Lifespan
    \/ LifespanExit
    \/ Shutdown
    \/ Arrive(MaxRequests)
    \/ Stats
    \/ Evaluate(EvaluateRequests({ None }), TimingOutputs, TimingDurations)
    \/ BatchEvaluate(TimingBatchRequests, TimingOutputs, TimingDurations)

SpecTiming == InitTiming /\ [][NextTiming]_vars

(* The quality label: one /evaluate whose score lies within QualityMargin  *)
(* ten-thousandths of a threshold, or at an end of the scale.              *)
QualityMargin == 10

QualityScores ==
    {0, 10000}
    \cup UNION { (t - QualityMargin)..(t + QualityMargin) :
                  t \in {FairMin, GoodMin, ExcellentMin} }

QualityOutputs == OutputsOf({ <<Some(v)>> : v \in QualityScores }, {})

InitQuality == env = DefaultModel /\ InitGlobals

NextQuality ==
    \/ Lifespan
    \/ LifespanExit
    \/ Shutdown
    \/ Arrive(1)
    \/ Evaluate(EvaluateRequests(ServerReferences), QualityOutputs, ResponseDurations)

SpecQuality == InitQuality /\ [][NextQuality]_vars

----------------------------------------------------------------------------
(* Vocabulary of the properties *)

ScoringEndpoints == {"evaluate", "detect_errors", "batch_evaluate"}

\* this step is a handler answering a request
Answered == inflight' = inflight - 1

\* this step answers an empty /batch_evaluate
EmptyBatchStep ==
    /\ Answered
    /\ resp'.endpoint = "batch_evaluate"
    /\ Len(resp'.request.pairs) = 0

\* this step answers /evaluate, /detect_errors or a non-empty /batch_evaluate
ScoringStep ==
    /\ Answered
    /\ resp'.endpoint \in ScoringEndpoints
    /\ ~EmptyBatchStep

\* the four counters of the stats dictionary
Counters(st) ==
    <<st.evaluation_count, st.batch_count, st.total_pairs_evaluated,
      st.total_inference_time_ms>>

\* the references of the request that resp answers
RequestReferences(r) ==
    IF r.endpoint = "batch_evaluate"
      THEN [i \in 1..Len(r.request.pairs) |-> r.request.pairs[i].reference]
      ELSE << r.request.reference >>

\* how many of them are absent (None or the empty string)
MissingReferences(r) ==
    Cardinality({ i \in 1..Len(RequestReferences(r)) :
                    RequestReferences(r)[i] \in { None, Some("") } })

----------------------------------------------------------------------------
(* C1: however many scoring requests and preloads there are, and however   *)
(* they overlap, the model is constructed at most once and exactly once as *)
(* soon as one get_model call has returned; model_load_time is written     *)
(* once, by that construction; every get_model call returns the handle of  *)
(* that one construction.                                                  *)
C1_ConstructedOnce ==
    /\ calls.constructed <= 1
    /\ calls.load_time_writes = calls.constructed
    /\ calls.load_from_checkpoint <= calls.download_model
    /\ _model \in { None, Some(1) }
    /\ (_model = Some(1)) <=> (calls.constructed = 1)
    /\ (_stats.model_load_time # None) <=> (calls.constructed = 1)
    /\ calls.predict >= 1 => calls.constructed = 1
    /\ (resp.endpoint \in ScoringEndpoints /\ resp.status = 200
          /\ resp.pred # NoPrediction) => calls.constructed = 1

\* several scoring requests, one still in flight, and a single construction
C1_Witness ==
    /\ calls.predict >= 2
    /\ inflight >= 1
    /\ calls.constructed = 1
    /\ calls.load_time_writes = 1

(* C2: a scoring request that finds no model attempts the construction; if *)
(* the construction fails the request is answered 500, the cache stays     *)
(* empty and model_load_time unset, so the next request attempts it again. *)
C2_FailedConstructionStep ==
    ScoringStep /\ _model = None =>
        /\ calls'.download_model = calls.download_model + 1
        /\ calls'.constructed = calls.constructed =>
             /\ resp'.status = 500
             /\ _model' = None
             /\ _model_name' = None
             /\ _stats'.model_load_time = None
             /\ Counters(_stats') = Counters(_stats)

C2_FailedConstruction == [][C2_FailedConstructionStep]_vars

\* a request failed on the construction and a later one loaded the model
C2_Witness ==
    /\ phase = "serving"
    /\ calls.download_model >= 2
    /\ calls.constructed = 1
    /\ served.errors >= 1
    /\ _model = Some(1)

(* C3 (as the spec states it): a request answered with an error leaves the *)
(* four stats counters unchanged.                                          *)
C3_ErrorLeavesCountersStep ==
    ScoringStep /\ resp'.status # 200 => Counters(_stats') = Counters(_stats)

C3_ErrorLeavesCounters == [][C3_ErrorLeavesCountersStep]_vars

(* C4 (as the spec states it): /stats reports one counter per endpoint     *)
(* under the keys evaluate_api_count, detect_errors_api_count and          *)
(* batch_api_count, and a successful /detect_errors leaves the counter of  *)
(* /evaluate alone.                                                        *)
C4_PerEndpointCountersStep ==
    /\ (Answered /\ resp'.endpoint = "stats") =>
          /\ {"evaluate_api_count", "detect_errors_api_count", "batch_api_count"}
                \subseteq DOMAIN resp'.body
          /\ {"evaluation_count", "batch_count"} \cap DOMAIN resp'.body = {}
    /\ (Answered /\ resp'.endpoint = "detect_errors" /\ resp'.status = 200) =>
          _stats'.evaluation_count = _stats.evaluation_count

C4_PerEndpointCounters == [][C4_PerEndpointCountersStep]_vars

\* the requests served so far are one successful /evaluate, one successful
\* /detect_errors and one successful /batch_evaluate of three pairs
C5_OneOfEach ==
    /\ arrived = 3
    /\ inflight = 0
    /\ served.evaluate = 1
    /\ served.detect_errors = 1
    /\ served.batch = 1
    /\ served.batch_pairs = 3
    /\ served.errors = 0

(* C5 (as the spec states it): after one successful call of each endpoint, *)
(* the batch having three pairs, total_pairs_evaluated is 4 and            *)
(* total_inference_time_ms is the sum of the three durations.              *)
C5_FourPairs ==
    C5_OneOfEach =>
        /\ _stats.total_pairs_evaluated = 4
        /\ _stats.total_inference_time_ms = served.ok_time

(* C5 (amended): after one successful call of each endpoint, the batch     *)
(* having three pairs, total_pairs_evaluated is 5, the pair of             *)
(* /detect_errors being counted as well, and total_inference_time_ms is    *)
(* the sum of the three durations.                                         *)
C5_FivePairs ==
    C5_OneOfEach =>
        /\ _stats.total_pairs_evaluated = 5
        /\ _stats.total_inference_time_ms = served.ok_time
        /\ _stats.evaluation_count = 2
        /\ _stats.batch_count = 1

C5_Witness == C5_OneOfEach /\ _stats.total_inference_time_ms > 0

(* C6 (as the spec states it): a request of /evaluate or /batch_evaluate   *)
(* that lacks a reference the model requires is answered 400 without any   *)
(* call of download_model, load_from_checkpoint or predict, whether the    *)
(* model is loaded or not.                                                 *)
C6_CheckBeforeLoaderStep ==
    ( /\ ScoringStep
      /\ resp'.endpoint \in {"evaluate", "batch_evaluate"}
      /\ model_requires_reference(env)
      /\ MissingReferences(resp') > 0 ) =>
        /\ resp'.status = 400
        /\ calls' = calls
        /\ _model' = _model

C6_CheckBeforeLoader == [][C6_CheckBeforeLoaderStep]_vars

\* the values of XCOMET_MODEL that name a reference-mandatory model
ReferenceMandatory ==
    { Unbabel \o wmt22_comet_da,
      Unbabel \o <<"W","M","T","2","1","-","C","o","m","e","t","-","D","A">>,
      <<"w","m","t","2","0","-","c","o","m","e","t","-","d","a","-","v","2">> }

(* C7 (as the spec states it): under a reference-mandatory model name a    *)
(* request of /evaluate or /batch_evaluate with a missing reference is     *)
(* answered 400, the batch error carrying the number of pairs without a    *)
(* reference; under any other name no request is answered 400.             *)
C7_ReferenceRuleStep ==
    (ScoringStep /\ resp'.endpoint \in {"evaluate", "batch_evaluate"}) =>
        IF env \in ReferenceMandatory /\ MissingReferences(resp') > 0
          THEN /\ resp'.status = 400
               /\ resp'.endpoint = "batch_evaluate" =>
                    resp'.body.detail.missing_ref_count = MissingReferences(resp')
          ELSE resp'.status # 400

C7_ReferenceRule == [][C7_ReferenceRuleStep]_vars

\* predict returned an output whose first score is readable
ReadableOutput(r) ==
    /\ r.pred # NoPrediction
    /\ ~r.pred.raises
    /\ Len(r.pred.output.scores) > 0
    /\ r.pred.output.scores[1] # None

\* the severities of the error spans of the first metadata entry, in order
OriginalSeverities(output) ==
    IF "metadata" \in DOMAIN output /\ Len(output.metadata) > 0
         /\ output.metadata[1] # None
         /\ "error_spans" \in DOMAIN output.metadata[1][1]
      THEN [i \in 1..Len(output.metadata[1][1].error_spans) |->
              IF "severity" \in DOMAIN output.metadata[1][1].error_spans[i]
                THEN output.metadata[1][1].error_spans[i].severity
                ELSE "minor"]
      ELSE <<>>

\* minor(0) < major(1) < critical(2), anything else 0
Order(sev) == IF sev = "critical" THEN 2 ELSE IF sev = "major" THEN 1 ELSE 0

\* the elements of sevs of order >= n, in order
RECURSIVE AtLeast(_, _)
AtLeast(sevs, n) ==
    IF sevs = <<>> THEN <<>>
    ELSE IF Order(Head(sevs)) >= n
      THEN <<Head(sevs)>> \o AtLeast(Tail(sevs), n)
      ELSE AtLeast(Tail(sevs), n)

\* the number of elements of sevs equal to sev
Occurrences(sevs, sev) == Cardinality({ i \in 1..Len(sevs) : sevs[i] = sev })

(* C8 (as the spec states it): a /detect_errors response lists exactly the *)
(* original errors of order >= order(min_severity), and errors_by_severity *)
(* counts all original errors per bucket, filtered out or not.             *)
C8_FilterAndFullCounts ==
    (resp.endpoint = "detect_errors" /\ resp.status = 200) =>
        LET original == OriginalSeverities(resp.pred.output) IN
        /\ [i \in 1..Len(resp.body.errors) |-> resp.body.errors[i].severity]
             = AtLeast(original, Order(resp.request.min_severity))
        /\ resp.body.total_errors = Len(resp.body.errors)
        /\ \A sev \in {"minor", "major", "critical"} :
             resp.body.errors_by_severity[sev] = Occurrences(original, sev)

(* C9 (as the spec states it): a span with an unrecognised severity does   *)
(* not fail /detect_errors: the request succeeds, and the span is returned *)
(* when min_severity has order 0.                                          *)
C9_UnknownSeverityTolerated ==
    ( /\ resp.endpoint = "detect_errors"
      /\ ReadableOutput(resp)
      /\ \E i \in 1..Len(OriginalSeverities(resp.pred.output)) :
            OriginalSeverities(resp.pred.output)[i] \notin {"minor", "major", "critical"} )
    => /\ resp.status = 200
       /\ Order(resp.request.min_severity) = 0 =>
            \E i \in 1..Len(resp.body.errors) :
                resp.body.errors[i].severity \notin {"minor", "major", "critical"}

(* C10: an empty /batch_evaluate is answered with average_score 0,         *)
(* total_pairs 0, no results and the summary "No pairs to evaluate."; it   *)
(* changes no counter, calls neither the construction nor predict, and     *)
(* leaves the model as it was.                                             *)
C10_EmptyBatchStep ==
    EmptyBatchStep =>
        /\ resp'.status = 200
        /\ resp'.body.average_score = Ratio(0, 1)
        /\ resp'.body.total_pairs = 0
        /\ resp'.body.results = <<>>
        /\ resp'.body.summary = [text |-> "No pairs to evaluate."]
        /\ _stats' = _stats
        /\ calls' = calls
        /\ _model' = _model
        /\ _model_name' = _model_name

C10_EmptyBatch == [][C10_EmptyBatchStep]_vars

\* an empty batch answered after a counted batch, the model being loaded
C10_Witness ==
    /\ resp.endpoint = "batch_evaluate"
    /\ Len(resp.request.pairs) = 0
    /\ _model # None
    /\ _stats.batch_count >= 1
    /\ served.empty_batch >= 1

(* C11 (as the spec states it): a successful non-empty /batch_evaluate has *)
(* one result per input pair, as many as total_pairs, the i-th result      *)
(* carrying index i and the i-th score, however many scores and metadata   *)
(* entries predict returned; an empty batch has average_score 0 and no     *)
(* results.                                                                *)
C11_OneResultPerPair ==
    (resp.endpoint = "batch_evaluate" /\ resp.status = 200) =>
        IF Len(resp.request.pairs) = 0
          THEN /\ resp.body.average_score = Ratio(0, 1)
               /\ resp.body.results = <<>>
          ELSE /\ resp.body.total_pairs = Len(resp.request.pairs)
               /\ Len(resp.body.results) = Len(resp.request.pairs)
               /\ \A i \in 1..Len(resp.body.results) :
                    /\ resp.body.results[i].index = i - 1
                    /\ resp.body.results[i].score = resp.pred.output.scores[i][1]

\* the stats after the update of the request that this step answers
WholeUpdate ==
    [_stats EXCEPT
       ![IF resp'.endpoint = "batch_evaluate" THEN "batch_count"
         ELSE "evaluation_count"] = @ + 1,
       !.total_pairs_evaluated =
           @ + (IF resp'.endpoint = "batch_evaluate"
                  THEN Len(resp'.request.pairs) ELSE 1),
       !.total_inference_time_ms = @ + resp'.pred.ms]

(* C12: whatever the interleaving of the requests, a step either leaves    *)
(* the stats alone or applies the whole update of one request whose        *)
(* predict call returned (its counter + 1, its pairs, its duration); the   *)
(* counters are at every moment the sums of these updates, none being      *)
(* lost, and a /stats response reports exactly these sums.                 *)
C12_AtomicUpdateStep ==
    /\ IF Answered /\ resp'.endpoint \in ScoringEndpoints /\ "ms" \in DOMAIN resp'.pred
         THEN Counters(_stats') = Counters(WholeUpdate)
         ELSE Counters(_stats') = Counters(_stats)
    /\ _stats'.evaluation_count + _stats'.batch_count = served'.predicted
    /\ _stats'.total_pairs_evaluated = served'.predicted_pairs
    /\ _stats'.total_inference_time_ms = served'.predicted_ms
    /\ (Answered /\ resp'.endpoint = "stats") =>
          /\ resp'.body.evaluation_count + resp'.body.batch_count = served.predicted
          /\ resp'.body.total_pairs_evaluated = served.predicted_pairs
          /\ resp'.body.total_inference_time_ms = served.predicted_ms

C12_AtomicUpdate == [][C12_AtomicUpdateStep]_vars

\* /stats answered between the updates of two requests that were in flight
\* together
C12_Witness ==
    /\ resp.endpoint = "stats"
    /\ served.predicted >= 1
    /\ inflight >= 1
    /\ resp.body.total_pairs_evaluated >= 1
    /\ resp.body.total_inference_time_ms = served.predicted_ms

\* resp answers GET /stats, the first request that was served
FirstStats == resp.endpoint = "stats" /\ arrived - inflight = 1

\* the number of counted calls that a /stats response reports
ReportedCalls == resp.body.evaluation_count + resp.body.batch_count

\* the four counters of a /stats response are 0
ReportedZero ==
    /\ resp.body.evaluation_count = 0
    /\ resp.body.batch_count = 0
    /\ resp.body.total_pairs_evaluated = 0
    /\ resp.body.total_inference_time_ms = 0

(* C13 (as the spec states it): before any request was served /stats       *)
(* reports model_loaded false and every counter 0; avg_inference_time_ms   *)
(* is absent exactly when the call counters sum to 0 and is otherwise      *)
(* total_inference_time_ms divided by that sum.                            *)
C13_QuotientOfTotal ==
    /\ FirstStats => ~resp.body.model_loaded /\ ReportedZero
    /\ resp.endpoint = "stats" =>
          /\ (resp.body.avg_inference_time_ms = None) <=> (ReportedCalls = 0)
          /\ ReportedCalls > 0 =>
               resp.body.avg_inference_time_ms[1] * ReportedCalls
                 = resp.body.total_inference_time_ms

\* the distance between total and a * n, doubled
TwiceOff(total, a, n) ==
    IF total >= a * n THEN 2 * (total - a * n) ELSE 2 * (a * n - total)

(* C13 (amended): before any request was served /stats reports every       *)
(* counter 0, and model_loaded false unless the model was preloaded at     *)
(* startup; avg_inference_time_ms is absent exactly when evaluation_count  *)
(* + batch_count is 0 and is otherwise total_inference_time_ms divided by  *)
(* that sum and rounded to the nearest integer, a tie going to the even    *)
(* one.                                                                    *)
C13_RoundedQuotient ==
    /\ FirstStats =>
          /\ ReportedZero
          /\ resp.body.model_loaded <=> (calls.constructed = 1)
    /\ resp.endpoint = "stats" =>
          /\ (resp.body.avg_inference_time_ms = None) <=> (ReportedCalls = 0)
          /\ ReportedCalls > 0 =>
               LET a == resp.body.avg_inference_time_ms[1]
                   off == TwiceOff(resp.body.total_inference_time_ms, a, ReportedCalls)
               IN /\ off <= ReportedCalls
                  /\ off = ReportedCalls => a % 2 = 0

\* /stats after two calls of 5 ms in total: the average 2.5 is reported as 2
C13_Witness ==
    /\ resp.endpoint = "stats"
    /\ ReportedCalls = 2
    /\ resp.body.total_inference_time_ms = 5
    /\ resp.body.avg_inference_time_ms = Some(2)

\* the construction attempted in this step failed
ConstructionFailed ==
    /\ calls'.download_model = calls.download_model + 1
    /\ calls'.constructed = calls.constructed

(* C14: an error keeps its category through the nesting of the handlers    *)
(* and never stops the server.  A scoring request, /detect_errors and its  *)
(* inner evaluate included, whose construction fails or whose predict call *)
(* raises is answered 500; one that lacks a reference the loaded model     *)
(* requires is answered 400 with the reference error, and nothing else is  *)
(* answered 400; an error response leaves the server in the phase it was   *)
(* in, so it goes on answering requests, the model handle is the cached    *)
(* one or still absent, and no counter went down.                          *)
C14_ErrorCategoryStep ==
    ScoringStep =>
        /\ resp'.status \in {200, 400, 500}
        /\ ConstructionFailed => resp'.status = 500
        /\ resp'.pred = [raises |-> TRUE] => resp'.status = 500
        /\ ( /\ ~ConstructionFailed
             /\ model_requires_reference(env)
             /\ MissingReferences(resp') > 0 ) =>
                /\ resp'.status = 400
                /\ resp'.body.detail.error
                     \in {"requires_reference", "requires_references"}
                /\ resp'.pred = NoPrediction
        /\ resp'.status = 400 =>
                model_requires_reference(env) /\ MissingReferences(resp') > 0
        /\ resp'.status # 200 =>
                /\ phase' = phase
                /\ _model' \in { None, Some(1) }
                /\ _model # None => _model' = _model
                /\ (_model' # None) <=> (calls'.constructed = 1)
                /\ \A i \in 1..4 : Counters(_stats')[i] >= Counters(_stats)[i]

C14_ErrorCategory == [][C14_ErrorCategoryStep]_vars

\* /detect_errors was answered 400 for the missing reference of its inner
\* evaluate, after a failed construction was answered 500; the process is
\* serving, the model loaded, and a later request is waiting
C14_Witness ==
    /\ resp.endpoint = "detect_errors"
    /\ resp.status = 400
    /\ resp.body.detail.error = "requires_reference"
    /\ served.errors >= 2
    /\ calls.download_model >= 2
    /\ phase = "serving"
    /\ _model = Some(1)
    /\ inflight >= 1

(* C15: the quality label of a successful /evaluate has inclusive lower    *)
(* bounds: Excellent from 0.9, Good from 0.7 below 0.9, Fair from 0.5      *)
(* below 0.7, Poor below 0.5; so 0.9 is Excellent, 0.8999 Good, 0.7 Good,  *)
(* 0.6999 Fair, 0.5 Fair and 0.4999 Poor (scores in ten-thousandths).      *)
C15_QualityBoundaries ==
    (resp.endpoint = "evaluate" /\ resp.status = 200) =>
        LET score == resp.pred.output.scores[1][1]
            quality == resp.body.summary.quality
        IN /\ (quality = "Excellent") <=> score >= 9000
           /\ (quality = "Good") <=> (score >= 7000 /\ score < 9000)
           /\ (quality = "Fair") <=> (score >= 5000 /\ score < 7000)
           /\ (quality = "Poor") <=> score < 5000
           /\ score = 9000 => quality = "Excellent"
           /\ score = 8999 => quality = "Good"
           /\ score = 7000 => quality = "Good"
           /\ score = 6999 => quality = "Fair"
           /\ score = 5000 => quality = "Fair"
           /\ score = 4999 => quality = "Poor"

\* a score of 0.9 was labelled Excellent
C15_Witness ==
    /\ resp.endpoint = "evaluate"
    /\ resp.status = 200
    /\ resp.pred.output.scores = <<Some(9000)>>
    /\ resp.body.summary.quality = "Excellent"

\* the results of resp that list at least one error of severity critical
WithCritical ==
    { i \in 1..Len(resp.body.results) :
        \E k \in 1..Len(resp.body.results[i].errors) :
            resp.body.results[i].errors[k].severity = "critical" }

(* C16: in a successful non-empty /batch_evaluate a result has             *)
(* has_critical_errors exactly when its errors list holds an error of      *)
(* severity critical, the critical count of the summary is the number of   *)
(* such results, and the good count is the number of results whose score   *)
(* is >= 0.7.                                                              *)
C16_BatchAggregates ==
    ( /\ resp.endpoint = "batch_evaluate"
      /\ resp.status = 200
      /\ Len(resp.request.pairs) > 0 ) =>
        /\ \A i \in 1..Len(resp.body.results) :
             resp.body.results[i].has_critical_errors <=> i \in WithCritical
        /\ resp.body.summary.critical_count = Cardinality(WithCritical)
        /\ resp.body.summary.good_count =
             Cardinality({ i \in 1..Len(resp.body.results) :
                             resp.body.results[i].score >= 7000 })

\* two results: one at 0.7 with a span that has no severity, one at 0.6999
\* with a critical span
C16_Witness ==
    /\ resp.endpoint = "batch_evaluate"
    /\ resp.status = 200
    /\ Len(resp.body.results) = 2
    /\ resp.body.results[1].score = 7000
    /\ resp.body.results[1].error_count = 1
    /\ ~resp.body.results[1].has_critical_errors
    /\ resp.body.results[2].score = 6999
    /\ resp.body.results[2].has_critical_errors
    /\ resp.body.summary.good_count = 1
    /\ resp.body.summary.critical_count = 1
    /\ resp.pred.output.metadata[1] = Some([error_spans |-> <<[text |-> "x"]>>])

(* C17: the model only goes from absent to loaded, by one construction,    *)
(* and is never torn down: once loaded, the handle, the recorded name and  *)
(* model_load_time stay as they are whatever request follows, failing ones *)
(* included; /health and /stats report model_loaded exactly when the       *)
(* handle is there, so after one of them reported true every later one     *)
(* reports true, with the same name and load time.                         *)
C17_ForwardOnlyStep ==
    /\ _model # None =>
          /\ _model' = _model
          /\ _model_name' = _model_name
          /\ _stats'.model_load_time = _stats.model_load_time
    /\ (_model = None /\ _model' # None) =>
          /\ calls'.constructed = calls.constructed + 1
          /\ _model_name' = Some(env)
          /\ _stats'.model_load_time # None
    /\ (Answered /\ resp'.endpoint \in {"health", "stats"}) =>
          /\ resp'.body.model_loaded <=> (_model # None)
          /\ ( /\ resp.endpoint \in {"health", "stats"}
               /\ resp.body.model_loaded ) => resp'.body.model_loaded
    /\ (Answered /\ resp'.endpoint = "health" /\ _model # None) =>
          resp'.body.model_name = _model_name[1]
    /\ (Answered /\ resp'.endpoint = "stats") =>
          resp'.body.model_load_time_ms = _stats.model_load_time

C17_ForwardOnly == [][C17_ForwardOnlyStep]_vars

\* /health reports the model loaded after a request failed on the loaded
\* model (the only construction attempt succeeded)
C17_Witness ==
    /\ resp.endpoint = "health"
    /\ resp.body.model_loaded
    /\ served.errors >= 1
    /\ calls.download_model = 1
    /\ calls.predict >= 1
    /\ _model = Some(1)

\* the counters st are sound beside the model handle m
SoundCounters(st, m) ==
    /\ \A i \in 1..4 : Counters(st)[i] >= 0
    /\ st.total_pairs_evaluated >= st.evaluation_count + st.batch_count
    /\ (st.evaluation_count > 0 \/ st.batch_count > 0) => m # None

(* C18: the four counters are never negative and never decrease from one   *)
(* state to the next; total_pairs_evaluated is at least evaluation_count + *)
(* batch_count, every counted call having scored one pair or more; and a   *)
(* call counter above 0 implies that the model is loaded.                  *)
C18_MonotoneCountersStep ==
    /\ SoundCounters(_stats, _model)
    /\ SoundCounters(_stats', _model')
    /\ \A i \in 1..4 : Counters(_stats')[i] >= Counters(_stats)[i]

C18_MonotoneCounters == [][C18_MonotoneCountersStep]_vars

\* both call counters above 0, a batch of several pairs counted and a
\* request answered with an error
C18_Witness ==
    /\ _stats.evaluation_count >= 1
    /\ _stats.batch_count >= 1
    /\ _stats.total_pairs_evaluated > _stats.evaluation_count + _stats.batch_count
    /\ served.errors >= 1
    /\ _model # None

(* C19: GET /health and GET /stats only read.  In any state, other         *)
(* requests being in flight or not, their step calls neither               *)
(* download_model nor load_from_checkpoint nor predict and leaves the      *)
(* model handle, the model name, the counters, start_time and              *)
(* model_load_time as they were; what they report is the state they found. *)
C19_ReadOnlyStep ==
    (Answered /\ resp'.endpoint \in {"health", "stats"}) =>
        /\ calls' = calls
        /\ _model' = _model
        /\ _model_name' = _model_name
        /\ _stats' = _stats
        /\ served' = served
        /\ resp'.status = 200
        /\ resp'.body.model_loaded <=> (_model # None)
        /\ resp'.endpoint = "stats" =>
             /\ resp'.body.evaluation_count = _stats.evaluation_count
             /\ resp'.body.batch_count = _stats.batch_count
             /\ resp'.body.total_pairs_evaluated = _stats.total_pairs_evaluated
             /\ resp'.body.total_inference_time_ms = _stats.total_inference_time_ms

C19_ReadOnly == [][C19_ReadOnlyStep]_vars

\* /health answered before any model was loaded, a scoring request waiting
C19_Witness ==
    /\ resp.endpoint = "health"
    /\ ~resp.body.model_loaded
    /\ _model = None
    /\ calls.download_model = 0
    /\ inflight >= 1

====
